---- MODULE Spec2Model ----
(***************************************************************************)
(* A model of espnff (src/espnff/espnff.py): the League aggregate, its     *)
(* construction from the leagueSettings response, power_rankings(week),    *)
(* and scoreboard() with the Matchup objects it builds.                    *)
(*                                                                         *)
(* A Team object is a record; a reference to a Team object is the record   *)
(* [kind |-> "team", id |-> team_id] (team ids are unique in a league, so  *)
(* the id names the object), a raw opponent id as it comes out of the JSON *)
(* is [kind |-> "id", id |-> n].  Scores are integers.                     *)
(*                                                                         *)
(* two_step_dominance and power_points live in espnff/utils.py, which is   *)
(* imported at line 3 but is not among the source files; they are modelled *)
(* from sections 4.2 and 4.3 of the specification.                         *)
(*                                                                         *)
(* Responses are the ones section 1 of the specification assumes: a body   *)
(* that parses as JSON, an error body that carries error[0].message, and   *)
(* league settings in which every opponent is a team of the league, team   *)
(* ids are unique and lie in 1..32, and every team has the same number of  *)
(* schedule items.                                                         *)
(***************************************************************************)
EXTENDS Integers, Sequences, FiniteSets, TLC

VARIABLES
    pc,                \* "new" | "ready" (a League object exists) | "failed"
    status,            \* self.status, the status code of the last response
    error,             \* the exception that ended the last operation
    data,              \* the leagueSettings response body, r.json()
    teams,             \* self.teams
    call,              \* the last method called on the League and its argument
    win_matrix,        \* power_rankings' local win_matrix after its loop
    dominance_matrix,  \* power_rankings' local dominance_matrix
    ret                \* the value the last call returned

vars == <<pc, status, error, data, teams, call, win_matrix, dominance_matrix, ret>>

----------------------------------------------------------------------------
(* Bounds of the model and the program's constant.                         *)

\* wins = [0]*32
Capacity == 32

\* The largest number of schedule items in a leagueSettings response, over
\* all its teams: two teams are loaded with up to MaxScheduleItems \div 2
\* weeks each, three teams with up to MaxScheduleItems \div 3.
MaxScheduleItems == 5

\* The largest number of matchups in one scoreboard response.
MaxMatchups == 1

\* The largest length of a hand-built mov or schedule list (SpecLists).
MaxLen == 2

\* The largest number of teams of a win matrix handed to the dominance
\* calculator on its own (SpecDominance), and its largest entry.
MaxDim == 3
MaxWins == 1

\* Weekly scores a team can have.
Scores == {0, 1}

\* The team-id sets of the leagues considered: contiguous and not, two and
\* three teams, the first and the last slot of the win vector.
LeagueIdSets == {{1, 3}, {1, 2, 3}, {2, 32}}

\* Status codes of a response.
StatusCodes == {200, 401, 404, 403, 500}

\* The weeks a league of these teams can be loaded with.
MaxWeeks(ids) == MaxScheduleItems \div Cardinality(ids)

\* Arguments of power_rankings: from 0 to one past the loaded weeks.
WeekArgs == 0..(MaxScheduleItems \div 2 + 1)

\* The awayTeamId of a bye's schedule item, which names no team.
NoTeamId == -1

\* None, as a team and as a score of a Matchup.
None == [kind |-> "none", id |-> 0]

NoScore == -1
RawId(n) == [kind |-> "id", id |-> n]
TeamRef(n) == [kind |-> "team", id |-> n]

----------------------------------------------------------------------------
(* Python helpers.                                                         *)

\* seq[:n] for n >= 0
Prefix(seq, n) == SubSeq(seq, 1, IF n < Len(seq) THEN n ELSE Len(seq))

Min(a, b) == IF a < b THEN a ELSE b

\* sum(seq[k-1:])
RECURSIVE SumFrom(_, _)
SumFrom(seq, k) == IF k > Len(seq) THEN 0 ELSE seq[k] + SumFrom(seq, k + 1)

SumSeq(seq) == SumFrom(seq, 1)

\* The sequences that list every element of a set once.
Orderings(S) == {p \in [1..Cardinality(S) -> S] : \A i, j \in DOMAIN p : i # j => p[i] # p[j]}

\* sorted(ts, key=lambda x: x.team_id, reverse=False): a stable insertion sort.
RECURSIVE InsertById(_, _)
InsertById(t, sorted) ==
    IF sorted = <<>> THEN <<t>>
    ELSE IF t.team_id < Head(sorted).team_id THEN <<t>> \o sorted
    ELSE <<Head(sorted)>> \o InsertById(t, Tail(sorted))

RECURSIVE SortedById(_)
SortedById(ts) ==
    IF ts = <<>> THEN <<>>
    ELSE InsertById(ts[Len(ts)], SortedById(SubSeq(ts, 1, Len(ts) - 1)))

----------------------------------------------------------------------------
(* The leagueSettings response.  A week of a league is a set of games      *)
(* (home, away) between disjoint pairs of its teams and a score for every  *)
(* team; a team in no game has a bye, and its schedule item names the team *)
(* itself as the home team, as the API reports byes.                       *)

Games(ids) ==
    {g \in SUBSET {p \in ids \X ids : p[1] # p[2]} :
        \A p, q \in g : p # q => {p[1], p[2]} \cap {q[1], q[2]} = {}}

WeekData(ids) == [games : Games(ids), score : [ids -> Scores]]

\* data['scheduleItems'][k]['matchups'][0] of team t
ScheduleItem(t, wk) ==
    IF \E g \in wk.games : t \in {g[1], g[2]}
    THEN LET g == CHOOSE g \in wk.games : t \in {g[1], g[2]}
         IN [isBye |-> FALSE, homeTeamId |-> g[1], awayTeamId |-> g[2],
             homeTeamScores |-> <<wk.score[g[1]]>>,
             awayTeamScores |-> <<wk.score[g[2]]>>]
    ELSE [isBye |-> TRUE, homeTeamId |-> t, awayTeamId |-> NoTeamId,
          homeTeamScores |-> <<wk.score[t]>>, awayTeamScores |-> <<>>]

\* data['leaguesettings']['teams']: a dict from the team's key to its JSON
LeagueSettings(ids, weeks) ==
    [t \in ids |->
        [teamId |-> t,
         scheduleItems |-> [k \in DOMAIN weeks |-> ScheduleItem(t, weeks[k])]]]

ErrorBody == <<>>

----------------------------------------------------------------------------
(* Team                                                                    *)

\* Team._fetch_schedule: the (score, opponentId) appended for one item
FetchScheduleItem(team_id, m) ==
    IF ~m.isBye
    THEN IF m.awayTeamId = team_id
         THEN [score |-> m.awayTeamScores[1], opponentId |-> m.homeTeamId]
         ELSE [score |-> m.homeTeamScores[1], opponentId |-> m.awayTeamId]
    ELSE [score |-> m.homeTeamScores[1], opponentId |-> m.homeTeamId]

\* Team.__init__
Team(d) ==
    [team_id  |-> d.teamId,
     scores   |-> [k \in DOMAIN d.scheduleItems |->
                      FetchScheduleItem(d.teamId, d.scheduleItems[k]).score],
     schedule |-> [k \in DOMAIN d.scheduleItems |->
                      RawId(FetchScheduleItem(d.teamId, d.scheduleItems[k]).opponentId)],
     mov      |-> <<>>]

\* The Team object a reference names.
Deref(ts, ref) == ts[CHOOSE i \in DOMAIN ts : ts[i].team_id = ref.id]

----------------------------------------------------------------------------
(* League._fetch_league and League._fetch_teams                            *)

\* The exception _fetch_league raises for a status, "none" for 200.
ClassifyUnknownFirst(st) ==
    IF st # 200 THEN "UnknownLeagueException"
    ELSE "none"

Classify(st) ==
    IF st = 401 THEN "PrivateLeagueException"
    ELSE IF st = 404 THEN "InvalidLeagueException"
    ELSE IF st # 200 THEN "UnknownLeagueException"
    ELSE "none"

\* replace opponentIds in schedule with team instances: the inner loop keeps
\* the last team of the list whose team_id equals the raw id
ResolveOne(ts, entry) ==
    IF entry.kind = "id" /\ \E i \in DOMAIN ts : ts[i].team_id = entry.id
    THEN TeamRef(entry.id)
    ELSE entry

ResolveSchedules(ts) ==
    [i \in DOMAIN ts |->
        [ts[i] EXCEPT !.schedule = [k \in DOMAIN @ |-> ResolveOne(ts, @[k])]]]

\* mov = team.scores[week] - opponent.scores[week]
MovOwnScore(team, opponent, k) == team.scores[k]

Mov(team, opponent, k) == team.scores[k] - opponent.scores[k]

\* Whether the margin loop raises: an unresolved opponent is an int and has
\* no scores; an opponent loaded with fewer weeks has no scores[week].
MovError(ts) ==
    IF \E i \in DOMAIN ts : \E k \in DOMAIN ts[i].schedule : ts[i].schedule[k].kind # "team"
    THEN "AttributeError"
    ELSE IF \E i \in DOMAIN ts : \E k \in DOMAIN ts[i].schedule :
               k > Len(Deref(ts, ts[i].schedule[k]).scores)
    THEN "IndexError"
    ELSE "none"

ComputeMov(ts) ==
    [i \in DOMAIN ts |->
        [ts[i] EXCEPT !.mov = [k \in DOMAIN ts[i].schedule |->
                                  Mov(ts[i], Deref(ts, ts[i].schedule[k]), k)]]]

\* League._fetch_teams: the teams after a run that does not raise
\* (order: the keys of the teams dict in the order the dict iterates)
FetchTeams(d, order) ==
    SortedById(ComputeMov(ResolveSchedules([i \in DOMAIN order |-> Team(d[order[i]])])))

FetchTeamsError(d, order) ==
    MovError(ResolveSchedules([i \in DOMAIN order |-> Team(d[order[i]])]))

NoCall == [op |-> "none", week |-> 0]
NoReturn == [kind |-> "none", value |-> <<>>]

\* League(league_id, year) with a response that is not 200: __init__ raises
ConstructFails ==
    /\ pc = "new"
    /\ \E st \in StatusCodes \ {200} :
          /\ status' = st
          /\ error' = Classify(st)
    /\ Classify(status') # "none"
    /\ data' = ErrorBody
    /\ pc' = "failed"
    /\ UNCHANGED <<teams, call, win_matrix, dominance_matrix, ret>>

\* League(league_id, year) with a 200 response
ConstructLoads ==
    /\ pc = "new"
    /\ status' = 200
    /\ \E ids \in LeagueIdSets :
          \E n \in 0..MaxWeeks(ids), order \in Orderings(ids) :
          \E weeks \in [1..n -> WeekData(ids)] :
              /\ data' = LeagueSettings(ids, weeks)
              /\ IF Classify(200) # "none"
                 THEN /\ error' = Classify(200)
                      /\ pc' = "failed"
                      /\ teams' = teams
                 ELSE IF FetchTeamsError(data', order) # "none"
                 THEN /\ error' = FetchTeamsError(data', order)
                      /\ pc' = "failed"
                      /\ teams' = teams
                 ELSE /\ error' = "none"
                      /\ pc' = "ready"
                      /\ teams' = FetchTeams(data', order)
    /\ UNCHANGED <<call, win_matrix, dominance_matrix, ret>>

----------------------------------------------------------------------------
(* League.power_rankings: the win matrix                                   *)

\* teams_sorted = sorted(self.teams, key=lambda x: x.team_id, reverse=False)
TeamsSortedDescending(ts) ==
    LET up == SortedById(ts) IN [i \in DOMAIN up |-> up[Len(up) + 1 - i]]

TeamsSorted(ts) == SortedById(ts)

\* if mov > 0
IsWinOrTie(mov) == mov >= 0

IsWin(mov) == mov > 0

\* The body of the loop over zip(team.mov[:week], team.schedule[:week]), from
\* its k-th pair on: opp = int(opponent.team_id)-1, then wins[opp] += 1 for a
\* win.  A list index below 0 counts from the end of the list; one outside
\* -32..31 raises IndexError; an opponent that is still an int has no team_id.
RECURSIVE WinsLoop(_, _, _, _)
WinsLoop(movs, opponents, k, wins) ==
    IF k > Min(Len(movs), Len(opponents))
    THEN [error |-> "none", wins |-> wins]
    ELSE IF opponents[k].kind # "team"
    THEN [error |-> "AttributeError", wins |-> wins]
    ELSE LET opp == opponents[k].id - 1
         IN IF ~IsWin(movs[k])
            THEN WinsLoop(movs, opponents, k + 1, wins)
            ELSE IF opp >= Capacity \/ opp < 0 - Capacity
            THEN [error |-> "IndexError", wins |-> wins]
            ELSE LET slot == IF opp < 0 THEN opp + Capacity ELSE opp
                 IN WinsLoop(movs, opponents, k + 1,
                             [wins EXCEPT ![slot + 1] = @ + 1])

\* wins = [0]*32 and the loop, for one team
TeamWinsThroughNextWeek(team, week) ==
    WinsLoop(Prefix(team.mov, week + 1), Prefix(team.schedule, week + 1), 1,
             [s \in 1..Capacity |-> 0])

TeamWins(team, week) ==
    WinsLoop(Prefix(team.mov, week), Prefix(team.schedule, week), 1,
             [s \in 1..Capacity |-> 0])

\* self.teams and the Team objects after power_rankings: sorted() builds a new
\* list, the slices are copies, wins is a fresh list: nothing is assigned.
LeagueAfterTruncatingInPlace(ts, week) ==
    [i \in DOMAIN ts |->
        [ts[i] EXCEPT !.mov = Prefix(@, week), !.schedule = Prefix(@, week)]]

LeagueAfterPowerRankings(ts, week) == ts

----------------------------------------------------------------------------
(* utils.two_step_dominance, from section 4.2: the row sums (direct        *)
(* scores), the product of the matrix with that vector, and their sum.     *)
(* Entry j of the vector is the direct score of row j; a column with no    *)
(* row of its own (the matrix has a row per team and 32 columns) meets no  *)
(* direct score and adds nothing.                                          *)

RECURSIVE DotProduct(_, _, _)
DotProduct(row, vec, j) ==
    IF j > Len(row) THEN 0
    ELSE row[j] * (IF j <= Len(vec) THEN vec[j] ELSE 0) + DotProduct(row, vec, j + 1)

\* direct_score: the row sums
DirectScores(X) == [i \in DOMAIN X |-> SumSeq(X[i])]

two_step_dominance_direct_only(X) == DirectScores(X)

\* (the singleton set binds the row sums, so that they are computed once)
two_step_dominance(X) ==
    CHOOSE dominance \in
        {[i \in DOMAIN X |-> direct[i] + DotProduct(X[i], direct, 1)] :
            direct \in {DirectScores(X)}} : TRUE

----------------------------------------------------------------------------
(* utils.power_points, from section 4.3: the final score is the dominance  *)
(* score, then the points per game through the week (0 when no game is     *)
(* evaluated); the ranking is the stable sort of the teams, which arrive   *)
(* in team_id order, by final score descending.                            *)

FinalScore(dominance, team, week) ==
    [dominance |-> dominance,
     points    |-> SumSeq(Prefix(team.scores, week)),
     games     |-> Len(Prefix(team.scores, week))]

Denominator(score) == IF score.games = 0 THEN 1 ELSE score.games

\* a < b
ScoreLess(a, b) ==
    \/ a.dominance < b.dominance
    \/ /\ a.dominance = b.dominance
       /\ a.points * Denominator(b) < b.points * Denominator(a)

SameScore(a, b) == ~ScoreLess(a, b) /\ ~ScoreLess(b, a)

RECURSIVE InsertByScore(_, _)
InsertByScore(e, sorted) ==
    IF sorted = <<>> THEN <<e>>
    ELSE IF ScoreLess(Head(sorted).score, e.score) THEN <<e>> \o sorted
    ELSE <<Head(sorted)>> \o InsertByScore(e, Tail(sorted))

RECURSIVE SortedByScore(_)
SortedByScore(es) ==
    IF es = <<>> THEN <<>>
    ELSE InsertByScore(es[Len(es)], SortedByScore(SubSeq(es, 1, Len(es) - 1)))

\* self.teams and the Team objects after the two calls into utils: section 5
\* has the ranking produce a fresh result and retain no side effect.
LeagueAfterUtils(ts) == ts

power_points(dominance, ts, week) ==
    SortedByScore([i \in DOMAIN ts |->
                      [team_id |-> ts[i].team_id,
                       score   |-> FinalScore(dominance[i], ts[i], week)]])

----------------------------------------------------------------------------
(* League.power_rankings(week)                                             *)

WinMatrixRows(ts, week) == [r \in DOMAIN ts |-> TeamWins(ts[r], week)]

LoopError(rows) ==
    IF \E r \in DOMAIN rows : rows[r].error # "none"
    THEN rows[CHOOSE r \in DOMAIN rows :
                 /\ rows[r].error # "none"
                 /\ \A q \in 1..(r - 1) : rows[q].error = "none"].error
    ELSE "none"

PowerRankings(week) ==
    /\ pc = "ready"
    /\ call' = [op |-> "power_rankings", week |-> week]
    /\ \E teams_sorted \in {TeamsSorted(teams)} :
       \E rows \in {WinMatrixRows(teams_sorted, week)} :
          IF LoopError(rows) # "none"
          THEN /\ error' = LoopError(rows)
               /\ win_matrix' = <<>>
               /\ dominance_matrix' = <<>>
               /\ ret' = [kind |-> "raise", value |-> <<>>]
          ELSE /\ error' = "none"
               /\ win_matrix' = [r \in DOMAIN rows |-> rows[r].wins]
               /\ dominance_matrix' = two_step_dominance(win_matrix')
               /\ ret' = [kind |-> "return",
                          value |-> power_points(dominance_matrix',
                                                 teams_sorted, week)]
    /\ teams' = LeagueAfterUtils(LeagueAfterPowerRankings(teams, week))
    /\ UNCHANGED <<pc, status, data>>

Init ==
    /\ pc = "new"
    /\ status = 0
    /\ error = "none"
    /\ data = <<>>
    /\ teams = <<>>
    /\ call = NoCall
    /\ win_matrix = <<>>
    /\ dominance_matrix = <<>>
    /\ ret = NoReturn

Next ==
    \/ ConstructFails
    \/ ConstructLoads
    \/ \E week \in WeekArgs : PowerRankings(week)

Spec == Init /\ [][Next]_vars
----------------------------------------------------------------------------
(* Matchup and League.scoreboard                                           *)

\* The team ids of the League.
LeagueIds == {teams[i].team_id : i \in DOMAIN teams}

\* Matchup._fetch_matchup_info
MatchupInfo(d) ==
    IF d.teams[1].home /\ ~d.bye
    THEN [home_team  |-> RawId(d.teams[1].teamId),
          home_score |-> d.teams[1].score,
          away_team  |-> RawId(d.teams[2].teamId),
          away_score |-> d.teams[2].score]
    ELSE IF d.teams[1].home /\ ~d.bye
    THEN [home_team  |-> RawId(d.teams[2].teamId),
          home_score |-> d.teams[2].score,
          away_team  |-> RawId(d.teams[1].teamId),
          away_score |-> d.teams[1].score]
    ELSE [home_team  |-> RawId(d.teams[1].teamId),
          home_score |-> d.teams[1].score,
          away_team  |-> None,
          away_score |-> NoScore]

\* The matchups of a scoreboard response: a bye has one team entry, flagged
\* home; a game has two, of two teams of the league, one of them flagged home.
MatchupData(ids) ==
    {[bye |-> TRUE, teams |-> <<[home |-> TRUE, teamId |-> t, score |-> x]>>] :
        t \in ids, x \in Scores}
    \cup
    {[bye |-> FALSE,
      teams |-> <<[home |-> h, teamId |-> p[1], score |-> x],
                  [home |-> ~h, teamId |-> p[2], score |-> y]>>] :
        h \in BOOLEAN, p \in {q \in ids \X ids : q[1] # q[2]}, x \in Scores, y \in Scores}

ScoreboardData(ids) ==
    UNION {[1..n -> MatchupData(ids)] : n \in 0..MaxMatchups}

\* League.scoreboard(week): the response decides what it does, week only
\* goes into the request
Scoreboard ==
    /\ pc = "ready"
    /\ call' = [op |-> "scoreboard", week |-> 0]
    /\ \E st \in StatusCodes :
          /\ status' = st
          /\ error' = Classify(st)
          /\ IF Classify(st) # "none"
             THEN /\ data' = ErrorBody
                  /\ ret' = [kind |-> "raise", value |-> <<>>]
             ELSE \E matchups \in ScoreboardData(LeagueIds) :
                     /\ data' = matchups
                     /\ ret' = [kind |-> "return",
                                value |-> [i \in DOMAIN matchups |->
                                   [MatchupInfo(matchups[i]) EXCEPT
                                       !.home_team = ResolveOne(teams, @),
                                       !.away_team = ResolveOne(teams, @)]]]
    /\ UNCHANGED <<pc, teams, win_matrix, dominance_matrix>>

\* A League just constructed, before its schedule holds any week.
InitBoard ==
    /\ pc = "ready"
    /\ status = 200
    /\ error = "none"
    /\ \E ids \in LeagueIdSets :
          /\ data = LeagueSettings(ids, <<>>)
          /\ \E order \in Orderings(ids) : teams = FetchTeams(data, order)
    /\ call = NoCall
    /\ win_matrix = <<>>
    /\ dominance_matrix = <<>>
    /\ ret = NoReturn

NextBoard == Scoreboard

SpecBoard == InitBoard /\ [][NextBoard]_vars

----------------------------------------------------------------------------
(* power_rankings on team lists built by hand: the mov list of the first   *)
(* team is any list of margins, whatever the length of its schedule.       *)

Margins == {-1, 0, 1}

SeqsUpTo(S, n) == UNION {[1..m -> S] : m \in 0..n}

InitLists ==
    /\ pc = "ready"
    /\ status = 200
    /\ error = "none"
    /\ data = <<>>
    /\ \E movs \in SeqsUpTo(Margins, MaxLen), n \in 0..MaxLen :
          teams = <<[team_id  |-> 1,
                     scores   |-> [k \in 1..n |-> 0],
                     schedule |-> [k \in 1..n |-> TeamRef(2)],
                     mov      |-> movs],
                    [team_id  |-> 2,
                     scores   |-> [k \in 1..n |-> 0],
                     schedule |-> [k \in 1..n |-> TeamRef(1)],
                     mov      |-> [k \in 1..n |-> 0]]>>
    /\ call = NoCall
    /\ win_matrix = <<>>
    /\ dominance_matrix = <<>>
    /\ ret = NoReturn

NextLists == \E week \in 0..(MaxLen + 1) : PowerRankings(week)

SpecLists == InitLists /\ [][NextLists]_vars

----------------------------------------------------------------------------
(* two_step_dominance on square win matrices: a row and a column per team, *)
(* nothing on the diagonal.                                                *)

SquareWinMatrices ==
    UNION {{X \in [1..n -> [1..n -> 0..MaxWins]] : \A i \in 1..n : X[i][i] = 0} :
              n \in 1..MaxDim}

InitDominance ==
    /\ pc = "matrix"
    /\ status = 0
    /\ error = "none"
    /\ data = <<>>
    /\ teams = <<>>
    /\ call = NoCall
    /\ win_matrix \in SquareWinMatrices
    /\ dominance_matrix = <<>>
    /\ ret = NoReturn

Dominance ==
    /\ pc = "matrix"
    /\ pc' = "scored"
    /\ dominance_matrix' = two_step_dominance(win_matrix)
    /\ UNCHANGED <<status, error, data, teams, call, win_matrix, ret>>

NextDominance == Dominance

SpecDominance == InitDominance /\ [][NextDominance]_vars

----------------------------------------------------------------------------
(* What the properties below speak of.                                     *)

TeamWithId(t) == teams[CHOOSE i \in DOMAIN teams : teams[i].team_id = t]

\* The row of the win matrix built for team t: teams are taken in team_id order.
RowOf(t) == 1 + Cardinality({u \in LeagueIds : u < t})

Ranked == call.op = "power_rankings"

\* The weeks power_rankings(week) evaluates for a team.
Evaluated(team, week) == 1..Min(week, Len(team.schedule))

\* The weeks among them that the team won against the team with this id.
WinsOver(team, week, id) ==
    {k \in Evaluated(team, week) : team.mov[k] > 0 /\ team.schedule[k].id = id}

\* C1: after the win-matrix loop of power_rankings(W), the counter at slot s
\* of a team's win vector is the number of weeks k < min(W, weeks loaded) in
\* which the team's margin is strictly positive and its opponent has
\* team_id = s + 1; ties and losses increment nothing.
C1_WinCounters ==
    Ranked =>
        /\ error = "none"
        /\ Len(win_matrix) = Len(teams)
        /\ \A t \in LeagueIds : \A s \in 0..(Capacity - 1) :
              win_matrix[RowOf(t)][s + 1] =
                  Cardinality(WinsOver(TeamWithId(t), call.week, s + 1))

\* A team beat an opponent in one week and tied it in another, which left
\* the counter at 1, in a call that asked for more weeks than are loaded.
C1_Witness ==
    /\ Ranked
    /\ \E t \in LeagueIds : \E s \in 1..Capacity :
          /\ win_matrix[RowOf(t)][s] = 1
          /\ call.week > Len(TeamWithId(t).schedule)
          /\ \E k \in Evaluated(TeamWithId(t), call.week) :
                /\ TeamWithId(t).mov[k] = 0
                /\ TeamWithId(t).schedule[k].id = s

\* C3: the ranking holds each team once, is ordered by final score
\* descending, and teams of equal final score are in ascending team_id order.
C3_RankingOrder ==
    Ranked =>
        /\ ret.kind = "return"
        /\ Len(ret.value) = Cardinality(LeagueIds)
        /\ {ret.value[i].team_id : i \in DOMAIN ret.value} = LeagueIds
        /\ \A i, j \in DOMAIN ret.value : i < j =>
              /\ ~ScoreLess(ret.value[i].score, ret.value[j].score)
              /\ SameScore(ret.value[i].score, ret.value[j].score)
                    => ret.value[i].team_id < ret.value[j].team_id

\* Three teams, two of them tied, ranked in another order than by team_id.
C3_Witness ==
    /\ Ranked
    /\ Len(ret.value) = 3
    /\ ret.value[1].team_id > ret.value[2].team_id
    /\ \E i \in 1..2 : SameScore(ret.value[i].score, ret.value[i + 1].score)
    /\ \E i \in 1..2 : ScoreLess(ret.value[i + 1].score, ret.value[i].score)

\* No game is played in the weeks power_rankings(week) evaluates: there is
\* no such week (week 0, or nothing loaded), or every score in them is 0.
NoGamesPlayed(week) ==
    \A i \in DOMAIN teams : \A k \in Evaluated(teams[i], week) :
        teams[i].scores[k] = 0

\* C4: power_rankings(0), and power_rankings when no games have been played,
\* raises nothing and returns every team with the same score, in ascending
\* team_id order.
C4_NoGamesAllTied ==
    (Ranked /\ NoGamesPlayed(call.week)) =>
        /\ error = "none"
        /\ ret.kind = "return"
        /\ {ret.value[i].team_id : i \in DOMAIN ret.value} = LeagueIds
        /\ \A i, j \in DOMAIN ret.value : i < j =>
              /\ SameScore(ret.value[i].score, ret.value[j].score)
              /\ ret.value[i].team_id < ret.value[j].team_id

\* power_rankings(0) on a league whose first week has a winner.
C4_Witness ==
    /\ Ranked
    /\ call.week = 0
    /\ Len(ret.value) >= 2
    /\ \E i \in DOMAIN teams : Len(teams[i].mov) >= 1 /\ teams[i].mov[1] > 0

LeagueErrors ==
    {"PrivateLeagueException", "InvalidLeagueException", "UnknownLeagueException"}

C8_SquareByTeamId ==
    Ranked =>
        /\ \A r \in DOMAIN win_matrix : Len(win_matrix[r]) = Len(win_matrix)
        /\ \A r \in DOMAIN win_matrix :
              /\ r \in LeagueIds
              /\ \A s \in 1..Capacity :
                    win_matrix[r][s] =
                        Cardinality(WinsOver(TeamWithId(r), call.week, s))

\* Whether week k of team t is a bye in the response.
IsBye(t, k) == data[t].scheduleItems[k].isBye

\* C9: a team's own slot of its win vector is zero, and a bye week adds to
\* none of its counters: they count the winning weeks that are not byes.
C9_OwnSlotAndByes ==
    Ranked =>
        \A t \in LeagueIds :
            /\ win_matrix[RowOf(t)][t] = 0
            /\ \A s \in 1..Capacity :
                  win_matrix[RowOf(t)][s] =
                      Cardinality({k \in WinsOver(TeamWithId(t), call.week, s) :
                                      ~IsBye(t, k)})
            /\ \A k \in Evaluated(TeamWithId(t), call.week) :
                  IsBye(t, k) =>
                      /\ TeamWithId(t).schedule[k] = TeamRef(t)
                      /\ TeamWithId(t).scores[k] = data[t].scheduleItems[k].homeTeamScores[1]

\* An evaluated week in which one team has a bye with a positive score while
\* another team wins its game.
C9_Witness ==
    /\ Ranked
    /\ \E t, u \in LeagueIds : \E k \in Evaluated(TeamWithId(t), call.week) :
          /\ IsBye(t, k)
          /\ TeamWithId(t).scores[k] > 0
          /\ ~IsBye(u, k)
          /\ TeamWithId(u).mov[k] > 0
----------------------------------------------------------------------------
(* Properties of the dominance calculator (SpecDominance), of hand-built   *)
(* lists (SpecLists) and of the scoreboard (SpecBoard).                    *)

\* The sum of f over the indices 1..n.
RECURSIVE SumTo(_, _)
SumTo(f, n) == IF n = 0 THEN 0 ELSE f[n] + SumTo(f, n - 1)

DirectScore(M, i) == SumTo(M[i], Len(M[i]))

ZeroMatrix(M) == \A i \in DOMAIN M : \A j \in DOMAIN M[i] : M[i][j] = 0

\* A beat B once, B beat C once, and nothing else happened.
Chain == <<<<0, 1, 0>>, <<0, 0, 1>>, <<0, 0, 0>>>>

\* C2: dominance(i) = direct_score(i) + the sum over j of M[i][j] *
\* direct_score(j), where direct_score(i) is the sum of row i; an all-zero
\* matrix gives 0 for every team; the chain A beat B beat C gives 2, 1, 0.
C2_TwoStepDominance ==
    pc = "scored" =>
        /\ DOMAIN dominance_matrix = DOMAIN win_matrix
        /\ \A i \in DOMAIN win_matrix :
              dominance_matrix[i] =
                  DirectScore(win_matrix, i)
                  + SumTo([j \in DOMAIN win_matrix |->
                              win_matrix[i][j] * DirectScore(win_matrix, j)],
                          Len(win_matrix))
        /\ ZeroMatrix(win_matrix) => \A i \in DOMAIN win_matrix : dominance_matrix[i] = 0
        /\ win_matrix = Chain => dominance_matrix = <<2, 1, 0>>

\* The chain A beat B beat C was scored.
C2_Witness ==
    /\ pc = "scored"
    /\ win_matrix = Chain
    /\ dominance_matrix[1] = 2

HomeEntry(d) == IF d.teams[1].home THEN d.teams[1] ELSE d.teams[2]
AwayEntry(d) == IF d.teams[1].home THEN d.teams[2] ELSE d.teams[1]

\* C10: the Matchup of a scoreboard game that is not a bye has both teams
\* set, home_team and home_score from the entry flagged home and away_team
\* and away_score from the other entry.
C10_MatchupSides ==
    (call.op = "scoreboard" /\ ret.kind = "return") =>
        \A i \in DOMAIN ret.value :
            ~data[i].bye =>
                /\ ret.value[i].away_team # None
                /\ ret.value[i].home_team = TeamRef(HomeEntry(data[i]).teamId)
                /\ ret.value[i].home_score = HomeEntry(data[i]).score
                /\ ret.value[i].away_team = TeamRef(AwayEntry(data[i]).teamId)
                /\ ret.value[i].away_score = AwayEntry(data[i]).score
====
